---- MODULE Spec2Model ----
(***************************************************************************)
(* kuma-mieru: the preload-data extraction and normalization pipeline.     *)
(*                                                                         *)
(* The model follows src/services/config.server.ts (and the second copy of *)
(* that service in src/unnamed/part_005), the /api/config route of         *)
(* src/unnamed/part_003 and the Config Assembler of src/config/api.ts.     *)
(*                                                                         *)
(* Specifications:                                                         *)
(*   Spec         one /api/config request after another                    *)
(*   SpecStatus   processMaintenanceData applied to bounded lists          *)
(*   SpecLocator  the Script Locator applied to bounded pages              *)
(*   SpecConfig   getConfig and getConfigForPage over generated configs    *)
(*   SpecCallers  callers holding and changing the configs they were given *)
(***************************************************************************)
EXTENDS Integers, Sequences, FiniteSets, TLC

VARIABLES
    mode,        \* which specification is running (fixed by Init)
    statusIn,    \* processMaintenanceData: the maintenanceList argument
    statusNow,   \* processMaintenanceData: Date.now() read for each item
    statusOut,   \* processMaintenanceData: the returned list, <<>> before the call
    locIn,       \* Script Locator: the page cheerio has loaded
    locOut,      \* Script Locator: the service that ran and what it located
    impl,        \* the copy of the config service that is deployed
    apiConfig,   \* config/api.ts: export const apiConfig = getConfig()
    pc,          \* where the /api/config request stands
    reqPageId,   \* the request's pageId query parameter (Null when omitted)
    currentConfig,   \* getGlobalConfig: the page-scoped config it scrapes with
    preloadData,     \* getGlobalConfig: the outcome of its await getPreloadData()
    maintenanceData, \* getGlobalConfig: what await getMaintenanceData() returned
    maintPreload,    \* getMaintenanceData: the outcome of its await getPreloadData()
    maintNow,        \* getMaintenanceData: Date.now() read for each item
    lastResponse,    \* the upstream's answer to the most recent customFetch
    fetches,         \* the endpoints this request has fetched, in order
    result,          \* the outcome of getGlobalConfig, handed to the response
    envConfig,   \* config/env.ts: env.config, the parsed generated-config.json
    cfgCall,     \* Config Assembler: the call made, Undefined before it
    cfgOut,      \* Config Assembler: the outcome of that call
    pagesArray,  \* the one array object behind env.config.pages
    metaHeap,    \* the siteMeta objects of the pages, by object identity
    held         \* the config each caller of getConfigForPage holds

statusVars == <<statusIn, statusNow, statusOut>>
requestVars == <<impl, apiConfig, pc, reqPageId, currentConfig, preloadData,
                 maintenanceData, maintPreload, maintNow, lastResponse, fetches,
                 result>>
locatorVars == <<locIn, locOut>>
configVars == <<envConfig, cfgCall, cfgOut>>
callerVars == <<pagesArray, metaHeap, held>>
vars == <<mode, statusVars, locatorVars, requestVars, configVars, callerVars>>

(***************************************************************************)
(* Bounds.                                                                 *)
(***************************************************************************)
\* wall-clock readings and Date.now() range over 0..MaxTime
MaxTime == 2
\* the scripts the Script Locator is tried on have up to MaxLen tokens
MaxLen == 5
\* offset of the server's local time zone: what new Date() adds to a date
\* string that names no zone
TzShift == 1

Times == 0 .. MaxTime

(***************************************************************************)
(* JavaScript values.                                                      *)
(***************************************************************************)
\* an object is a function from its own property names to their values
HasField(o, f) == f \in DOMAIN o

\* { ...o, f: v }
Put(o, f, v) == [k \in (DOMAIN o) \cup {f} |-> IF k = f THEN v ELSE o[k]]

\* Array.prototype.map
Map(F(_), s) == [i \in 1 .. Len(s) |-> F(s[i])]

\* the time value of an invalid date
NaN == 0 - 1

\* relational operators on time values: every comparison with NaN is false
Lt(a, b) == a # NaN /\ b # NaN /\ a < b
Ge(a, b) == a # NaN /\ b # NaN /\ a >= b

(***************************************************************************)
(* Date strings.  A date string is its wall-clock reading and its zone     *)
(* designator: "Z" (UTC), "none" (no designator) or "invalid" (text that   *)
(* is no date).                                                            *)
(***************************************************************************)
InvalidDate == [wall |-> 0, zone |-> "invalid"]

DateStrings == [wall : Times, zone : {"none", "Z"}] \cup {InvalidDate}

UtcDate(t) == [wall |-> t, zone |-> "Z"]

\* services/utils/common ensureUTCTimezone: a date string that names no zone
\* is marked as UTC; anything else is returned as it is
ensureUTCTimezone(d) == IF d.zone = "none" THEN [d EXCEPT !.zone = "Z"] ELSE d

\* new Date(d).getTime()
DateGetTime(d) ==
    CASE d.zone = "Z" -> d.wall
      [] d.zone = "none" -> d.wall + TzShift
      [] OTHER -> NaN

(***************************************************************************)
(* Maintenance Status Calculator.                                          *)
(***************************************************************************)
StatusSkipsStart(now, startTime, endTime) ==
    IF Lt(now, endTime) THEN "under-maintenance"
    ELSE IF Ge(now, endTime) THEN "ended"
    ELSE "unset"

\* the if / else-if chain of processMaintenanceData; "unset" when no branch
\* assigns processed.status
StatusOf(now, startTime, endTime) ==
    IF Ge(now, startTime) /\ Lt(now, endTime) THEN "under-maintenance"
    ELSE IF Lt(now, startTime) THEN "scheduled"
    ELSE IF Ge(now, endTime) THEN "ended"
    ELSE "unset"

NormalizeSlot(slot) ==
    [startDate |-> ensureUTCTimezone(slot.startDate),
     endDate |-> ensureUTCTimezone(slot.endDate)]

\* the callback of maintenanceList.map, for one item and its reading of
\* Date.now()
ProcessItem(maintenance, now) ==
    LET withSlots ==
            IF HasField(maintenance, "timeslotList")
               /\ Len(maintenance.timeslotList) > 0
            THEN Put(maintenance, "timeslotList",
                     Map(NormalizeSlot, maintenance.timeslotList))
            ELSE maintenance
    IN  IF HasField(withSlots, "timeslotList") /\ Len(withSlots.timeslotList) > 0
        THEN LET first == withSlots.timeslotList[1]
                 st == StatusOf(now, DateGetTime(first.startDate),
                                DateGetTime(first.endDate))
             IN  IF st = "unset" THEN withSlots ELSE Put(withSlots, "status", st)
        ELSE withSlots

\* processMaintenanceData; nows[i] is Date.now() as read for item i
processMaintenanceData(maintenanceList, nows) ==
    [i \in 1 .. Len(maintenanceList) |-> ProcessItem(maintenanceList[i], nows[i])]

(***************************************************************************)
(* Inputs of the Maintenance Status Calculator.                            *)
(***************************************************************************)
Slots == [startDate : DateStrings, endDate : DateStrings]

\* later slots of an item: UTC windows of length one
LaterSlots == {[startDate |-> UtcDate(t), endDate |-> UtcDate(t + 1)] : t \in Times}

TimeslotLists ==
    {<<>>} \cup {<<s>> : s \in Slots} \cup {<<s, l>> : s \in Slots, l \in LaterSlots}

\* a status the upstream payload may carry
UpstreamStatuses == {"ended"}

Items ==
    {[id |-> 1]}
    \cup {[id |-> 1, status |-> u] : u \in UpstreamStatuses}
    \cup [id : {1}, timeslotList : TimeslotLists]
    \cup [id : {1}, timeslotList : TimeslotLists, status : UpstreamStatuses]

\* an item that shares the list with the one under study
Sibling == [id |-> 2, timeslotList |-> <<[startDate |-> UtcDate(0), endDate |-> UtcDate(1)]>>]

\* the items whose first slot is s
ItemsStarting(s) ==
    LET lists == {<<s>>} \cup {<<s, l>> : l \in LaterSlots}
    IN  [id : {1}, timeslotList : lists]
        \cup [id : {1}, timeslotList : lists, status : UpstreamStatuses]

\* two items with the same first slot, whatever else they carry
TwinLists ==
    UNION {{<<m, [n EXCEPT !.id = 2]>> : m \in ItemsStarting(s), n \in ItemsStarting(s)} :
              s \in Slots}

MaintenanceLists ==
    {<<>>} \cup {<<m>> : m \in Items} \cup {<<m, Sibling>> : m \in Items}
    \cup {<<Sibling, m>> : m \in Items}
    \cup TwinLists

\* the readings of Date.now() for a list of n items: the clock never runs back
NowReadings(n) ==
    {r \in [1 .. n -> Times] : \A i \in 1 .. n : \A j \in i .. n : r[i] <= r[j]}

(***************************************************************************)
(* More JavaScript values.                                                 *)
(***************************************************************************)
\* null, as searchParams.get returns it for a parameter that is not there
Null == "null"
\* the string test of `pageId ? ... : ...`
Truthy(s) == s # Null /\ s # ""

Undefined == [undefined |-> TRUE]
IsUndefined(v) == HasField(v, "undefined")

\* a value with its typeof
Str(s) == [type |-> "string", value |-> s]
NotAString == [type |-> "number", value |-> "1"]

\* the outcome of a call: a returned value or a thrown error
Return(v) == [threw |-> FALSE, value |-> v]
Throw(name, message) == [threw |-> TRUE, error |-> [name |-> name, message |-> message]]

Without(o, f) == [k \in (DOMAIN o) \ {f} |-> o[k]]

SetMin(S) == CHOOSE x \in S : \A y \in S : x <= y
SetMax(S) == CHOOSE x \in S : \A y \in S : x >= y

\* Array.prototype.find: the first element that satisfies P, or undefined
Find(P(_), s) ==
    LET hits == {i \in 1 .. Len(s) : P(s[i])}
    IN  IF hits = {} THEN Undefined ELSE s[SetMin(hits)]

(***************************************************************************)
(* Config Assembler: config/api.ts over the generated configuration.       *)
(***************************************************************************)
BaseUrl == "https://kuma.example"
PageIds == {"main", "ops"}
UnknownPage == "nope"

SiteMetaOf(id) == [title |-> id, description |-> "status", icon |-> "/icon.svg"]

Pages == <<[id |-> "main", siteMeta |-> SiteMetaOf("main")],
           [id |-> "ops", siteMeta |-> SiteMetaOf("ops")]>>

\* env.config as the /api/config requests find it
GeneratedConfig ==
    [baseUrl |-> BaseUrl, defaultPageId |-> "main", pages |-> Pages,
     isPlaceholder |-> FALSE, isEditThisPage |-> FALSE, isShowStarButton |-> TRUE]

\* `${baseUrl}/status/${pageId}`
HtmlEndpoint(baseUrl, pageId) == <<baseUrl, "/status/", pageId>>
\* `${baseUrl}/api/status-page/heartbeat/${pageId}`
ApiEndpoint(baseUrl, pageId) == <<baseUrl, "/api/status-page/heartbeat/", pageId>>

getConfig(e) ==
    IF e.baseUrl = "" \/ e.defaultPageId = "" \/ Len(e.pages) = 0
    THEN Throw("Error", "Missing required configuration variables")
    ELSE LET found == Find(LAMBDA page : page.id = e.defaultPageId, e.pages)
             defaultPage == IF IsUndefined(found) THEN e.pages[1] ELSE found
         IN  Return([baseUrl |-> e.baseUrl,
                     defaultPageId |-> e.defaultPageId,
                     pages |-> e.pages,
                     currentPageId |-> e.defaultPageId,
                     htmlEndpoint |-> HtmlEndpoint(e.baseUrl, e.defaultPageId),
                     apiEndpoint |-> ApiEndpoint(e.baseUrl, e.defaultPageId),
                     siteMeta |-> defaultPage.siteMeta,
                     isPlaceholder |-> FALSE,
                     isEditThisPage |-> (e.isEditThisPage \/ FALSE),
                     isShowStarButton |-> (e.isShowStarButton \/ TRUE)])

\* getConfigForPage without its assignment to config.apiEndpoint
getConfigForPageStaleApi(base, pageId) ==
    LET page == Find(LAMBDA p : p.id = pageId, base.pages)
    IN  IF IsUndefined(page) THEN base
        ELSE [base EXCEPT !.currentPageId = pageId,
                          !.htmlEndpoint = HtmlEndpoint(base.baseUrl, pageId),
                          !.siteMeta = page.siteMeta]

getConfigForPage(base, pageId) ==
    LET page == Find(LAMBDA p : p.id = pageId, base.pages)
    IN  IF IsUndefined(page) THEN base
        ELSE [base EXCEPT !.currentPageId = pageId,
                          !.htmlEndpoint = HtmlEndpoint(base.baseUrl, pageId),
                          !.apiEndpoint = ApiEndpoint(base.baseUrl, pageId),
                          !.siteMeta = page.siteMeta]

(***************************************************************************)
(* Script Locator.  A text is a sequence of tokens: "W" is                 *)
(* `window.preloadData =`, "nl" a line break (the one white-space token),  *)
(* "x" any other character.                                                *)
(***************************************************************************)
Tokens == {"W", "{", "}", ";", "x", "nl"}

\* text.trim() === ''
IsBlank(text) == \A i \in 1 .. Len(text) : text[i] = "nl"

Concat(texts) ==
    LET RECURSIVE Cat(_)
        Cat(n) == IF n = 0 THEN <<>> ELSE Cat(n - 1) \o texts[n]
    IN  Cat(Len(texts))

\* $('script:contains("window.preloadData")').text(): the texts of the
\* scripts that hold the marker, joined
ScriptsWithPreloadData(html) ==
    Concat(SelectSeq(html.scripts, LAMBDA s : \E i \in 1 .. Len(s) : s[i] = "W"))

\* window\.preloadData\s*=\s* from the marker at i: the index of the `{`
\* that follows, 0 when something else follows
BraceAfter(text, i) ==
    LET rest == {j \in i + 1 .. Len(text) : text[j] # "nl"}
    IN  IF rest # {} /\ text[SetMin(rest)] = "{" THEN SetMin(rest) ELSE 0

\* ({.*}); from the `{` at j: the indices of a `}` that `;` follows, with
\* no line break in between (`.` matches none)
ClosingAfter(text, j) ==
    {k \in j + 1 .. Len(text) - 1 :
        /\ text[k] = "}"
        /\ text[k + 1] = ";"
        /\ \A m \in j + 1 .. k - 1 : text[m] # "nl"}

\* text.match(/window\.preloadData\s*=\s*({.*});/)[1], <<>> when the match
\* is null: the leftmost marker that matches, the longest capture from it
RegexCapture(text) ==
    LET starts == {i \in 1 .. Len(text) :
                      /\ text[i] = "W"
                      /\ BraceAfter(text, i) # 0
                      /\ ClosingAfter(text, BraceAfter(text, i)) # {}}
    IN  IF starts = {} THEN <<>>
        ELSE LET j == BraceAfter(text, SetMin(starts))
             IN  SubSeq(text, j, SetMax(ClosingAfter(text, j)))

Impls == {"services/config.server.ts", "unnamed/part_005"}

\* LocatePreload with the strategies in the other order: the legacy script
\* first, the designated element only when the legacy script yields nothing
LocatePreloadLegacyFirst(service, html) ==
    LET scriptWithPreloadData == ScriptsWithPreloadData(html)
        captured == RegexCapture(scriptWithPreloadData)
    IN  IF service = "unnamed/part_005" THEN html.preloadData
        ELSE IF scriptWithPreloadData # <<>> /\ captured # <<>>
        THEN captured ELSE html.preloadData

\* the value of preloadScript where getPreloadData tests it before parsing
LocatePreload(service, html) ==
    LET preloadScript == html.preloadData
    IN  IF service = "unnamed/part_005" THEN preloadScript
        ELSE IF preloadScript = <<>> \/ IsBlank(preloadScript)
        THEN LET scriptWithPreloadData == ScriptsWithPreloadData(html)
                 captured == RegexCapture(scriptWithPreloadData)
             IN  IF scriptWithPreloadData # <<>> /\ captured # <<>>
                 THEN captured ELSE preloadScript
        ELSE preloadScript

\* the test that throws 'Preload script tag not found'
PreloadMissing(service, preloadScript) ==
    IF service = "unnamed/part_005" THEN preloadScript = <<>>
    ELSE preloadScript = <<>> \/ IsBlank(preloadScript)
(***************************************************************************)
(* The upstream status page, as one answer to customFetch.                 *)
(***************************************************************************)
RequiredFields == {"slug", "title", "description", "icon", "theme"}

ThemeValues == {Str("dark"), Str("light"), Str("auto"), NotAString}

\* the site config the upstream embeds for the page whose slug is `slug`
UpstreamConfig(slug, theme) ==
    [slug |-> slug, title |-> "Upstream", description |-> "All systems",
     icon |-> "/upstream.png", theme |-> theme, showPoweredBy |-> TRUE]

ConfigValues(slug) ==
    {UpstreamConfig(slug, th) : th \in ThemeValues}
    \cup {Without(UpstreamConfig(slug, Str("dark")), f) : f \in RequiredFields}

Incidents ==
    {[title |-> "Outage",
      createdDate |-> [wall |-> 0, zone |-> "none"],
      lastUpdatedDate |-> [wall |-> 1, zone |-> "none"]]}

\* maintenanceList values, with what Array.isArray says of them
ArrayOf(items) == [isArray |-> TRUE, items |-> items]
NotAnArray == [isArray |-> FALSE, items |-> <<>>]

UpstreamLists ==
    {<<>>,
     <<[id |-> 1, status |-> "ended"]>>,
     <<[id |-> 1, timeslotList |->
            <<[startDate |-> [wall |-> 1, zone |-> "none"],
               endDate |-> [wall |-> 2, zone |-> "none"]]>>]>>}

MaintenanceValues == {NotAnArray} \cup {ArrayOf(l) : l \in UpstreamLists}

\* S, and each object of S with property f set to a value of V
WithOptional(S, f, V) == S \cup {Put(o, f, v) : o \in S, v \in V}

\* what extractPreloadData may return for the page `slug`
Payloads(slug) ==
    WithOptional(
        WithOptional(
            WithOptional({[monitorGroups |-> <<>>]}, "config", ConfigValues(slug)),
            "incident", Incidents),
        "maintenanceList", MaintenanceValues)

\* a payload the shapes of the page are tried with
SamplePayload(slug) ==
    [monitorGroups |-> <<>>, config |-> UpstreamConfig(slug, Str("dark")),
     maintenanceList |-> ArrayOf(<<>>)]

Literal == <<"{", "x", "}">>
Assignment == <<"W">> \o Literal \o <<";">>

ModernHtml == [preloadData |-> Literal, scripts |-> <<>>]

HtmlShapes ==
    {ModernHtml,
     [preloadData |-> Literal, scripts |-> <<Assignment>>],
     [preloadData |-> <<>>, scripts |-> <<Assignment>>],
     [preloadData |-> <<"nl">>, scripts |-> <<Assignment>>],
     [preloadData |-> <<"nl">>, scripts |-> <<>>],
     [preloadData |-> <<>>, scripts |-> <<<<"x", ";">>, <<"W", "x", ";">>>>],
     [preloadData |-> <<>>, scripts |-> <<>>]}

\* what sanitizeJsonString and extractPreloadData may throw
ParseFailures ==
    {Throw("SyntaxError", "Unexpected token"),
     Throw("ConfigError", "Invalid preload data"),
     Throw("TypeError", "Cannot read properties")}

\* the answers of the upstream to GET {baseUrl}/status/{slug}: the request
\* fails, or a status comes back with a body and with what that body's
\* payload parses to
Responses(slug) ==
    {[net |-> "throw", ok |-> FALSE, html |-> ModernHtml,
      parse |-> Throw("SyntaxError", "Unexpected token")]}
    \cup {[net |-> "ok", ok |-> FALSE, html |-> ModernHtml,
           parse |-> Throw("SyntaxError", "Unexpected token")]}
    \cup [net : {"ok"}, ok : {TRUE}, html : HtmlShapes,
          parse : ParseFailures \cup {Return(SamplePayload(slug))}]
    \cup [net : {"ok"}, ok : {TRUE}, html : {ModernHtml},
          parse : {Return(p) : p \in Payloads(slug)}]

NoResponse == [net |-> "none"]

(***************************************************************************)
(* getPreloadData.                                                         *)
(***************************************************************************)
\* sanitizeJsonString, then extractPreloadData: blank text is no JSON;
\* for any other text the outcome is the one the answer carries
ExtractPreload(preloadScript, resp) ==
    IF IsBlank(preloadScript) THEN Throw("SyntaxError", "Unexpected end of JSON input")
    ELSE resp.parse

\* the catch around sanitizeJsonString and extractPreloadData
PreloadParseCatch(outcome) ==
    IF ~outcome.threw THEN outcome
    ELSE IF outcome.error.name = "SyntaxError"
    THEN Throw("ConfigError", "JSON parsing failed")
    ELSE IF outcome.error.name = "ConfigError" THEN outcome
    ELSE Throw("ConfigError", "Failed to parse preload data")

PreloadRethrowsAll(outcome) == outcome

\* the outer catch of getPreloadData
PreloadOuterCatch(outcome) ==
    IF outcome.threw /\ outcome.error.name # "ConfigError"
    THEN Throw("ConfigError", "Failed to get preload data")
    ELSE outcome

\* the try block of getPreloadData, given the upstream's answer to its
\* customFetch
PreloadTry(service, resp) ==
    IF resp.net = "throw" THEN Throw("TypeError", "fetch failed")
    ELSE IF ~resp.ok THEN Throw("ConfigError", "Failed to get HTML")
    ELSE LET preloadScript == LocatePreload(service, resp.html)
         IN  IF PreloadMissing(service, preloadScript)
             THEN Throw("ConfigError", "Preload script tag not found")
             ELSE PreloadParseCatch(ExtractPreload(preloadScript, resp))

getPreloadData(service, resp) == PreloadOuterCatch(PreloadTry(service, resp))

(***************************************************************************)
(* getMaintenanceData.                                                     *)
(***************************************************************************)
ArrayIsArray(o, f) == HasField(o, f) /\ o[f].isArray

MaintenanceRethrows(outcome) == outcome

\* the catch block of getMaintenanceData
MaintenanceCatch(outcome) ==
    IF outcome.threw
    THEN Return([success |-> FALSE, maintenanceList |-> <<>>,
                 error |-> outcome.error.message])
    ELSE outcome

MaintenanceTryDefaulting(preload, nows) ==
    IF preload.threw THEN preload
    ELSE Return([success |-> TRUE,
                 maintenanceList |->
                     IF ArrayIsArray(preload.value, "maintenanceList")
                     THEN processMaintenanceData(preload.value.maintenanceList.items, nows)
                     ELSE <<>>])

\* the try block of getMaintenanceData, from the outcome of its await
\* getPreloadData()
MaintenanceTry(preload, nows) ==
    IF preload.threw THEN preload
    ELSE IF ~ArrayIsArray(preload.value, "maintenanceList")
    THEN Throw("ApiDataError", "Maintenance list data must be an array")
    ELSE Return([success |-> TRUE,
                 maintenanceList |->
                     processMaintenanceData(preload.value.maintenanceList.items, nows)])

getMaintenanceData(preload, nows) == MaintenanceCatch(MaintenanceTry(preload, nows))

\* the list getMaintenanceData is about to process, <<>> when it has none
ListToProcess(preload) ==
    IF ~preload.threw /\ ArrayIsArray(preload.value, "maintenanceList")
    THEN preload.value.maintenanceList.items ELSE <<>>

(***************************************************************************)
(* getGlobalConfig.                                                        *)
(***************************************************************************)
\* config || apiConfig; the copy in services/ takes no argument
CurrentConfig(service, config, base) ==
    IF service = "unnamed/part_005" /\ ~IsUndefined(config) THEN config ELSE base

\* the checks between getPreloadData and the theme
ValidateConfig(preload) ==
    IF preload.threw THEN preload
    ELSE IF ~HasField(preload.value, "config")
    THEN Throw("ConfigError", "Configuration data is missing")
    ELSE IF ~(RequiredFields \subseteq DOMAIN preload.value.config)
    THEN Throw("ConfigError", "Configuration is missing required field")
    ELSE IF preload.value.config.theme.type # "string"
    THEN Throw("ConfigError", "Theme must be a string")
    ELSE preload

ThemeAsGiven(theme) == theme

NormalizeTheme(theme) ==
    IF theme = Str("dark") THEN Str("dark")
    ELSE IF theme = Str("light") THEN Str("light")
    ELSE Str("system")

PlaceholderFlagsFlipped ==
    [slug |-> "", title |-> "", description |-> "", icon |-> "/icon.svg",
     theme |-> Str("system"), published |-> FALSE, showTags |-> FALSE,
     customCSS |-> "", footerText |-> "", showPoweredBy |-> TRUE,
     googleAnalyticsId |-> Null, showCertificateExpiry |-> TRUE]

\* the config of the catch block
PlaceholderConfig ==
    [slug |-> "", title |-> "", description |-> "", icon |-> "/icon.svg",
     theme |-> Str("system"), published |-> TRUE, showTags |-> TRUE,
     customCSS |-> "", footerText |-> "", showPoweredBy |-> FALSE,
     googleAnalyticsId |-> Null, showCertificateExpiry |-> FALSE]

Placeholder == [config |-> PlaceholderConfig, maintenanceList |-> <<>>]

GlobalConfigRethrows(outcome) == outcome

\* the catch block of getGlobalConfig
GlobalConfigCatch(outcome) ==
    IF outcome.threw THEN Return(Placeholder) ELSE outcome

NormalizeIncident(incident) ==
    [incident EXCEPT !.createdDate = ensureUTCTimezone(incident.createdDate),
                     !.lastUpdatedDate = ensureUTCTimezone(incident.lastUpdatedDate)]

\* the GlobalConfig object built from the validated preload data and the
\* maintenance data
AssembleGlobalConfig(data, maintenance) ==
    LET globalConfig ==
            [config |-> Put(data.config, "theme", NormalizeTheme(data.config.theme)),
             maintenanceList |-> maintenance.maintenanceList]
    IN  IF HasField(data, "incident")
        THEN Put(globalConfig, "incident", NormalizeIncident(data.incident))
        ELSE globalConfig

(***************************************************************************)
(* One /api/config request at a time.  The steps are the stretches of the  *)
(* handler between its awaits of customFetch.                              *)
(***************************************************************************)
PageParams == {Null} \cup PageIds \cup {UnknownPage}

\* the page an endpoint names
PageOf(endpoint) == endpoint[3]

RequestLocalsClear ==
    /\ pc = "idle"
    /\ reqPageId = Null
    /\ currentConfig = Undefined
    /\ preloadData = Undefined
    /\ maintenanceData = Undefined
    /\ maintPreload = Undefined
    /\ maintNow = <<>>
    /\ lastResponse = NoResponse
    /\ fetches = <<>>
    /\ result = Undefined

\* the request variables in the specifications that serve no request
RequestIdle ==
    /\ impl = "services/config.server.ts"
    /\ apiConfig = getConfig(GeneratedConfig).value
    /\ RequestLocalsClear

StatusIdle ==
    /\ statusIn = <<>>
    /\ statusNow = <<>>
    /\ statusOut = <<>>

LocatorIdle ==
    /\ locIn = Undefined
    /\ locOut = Undefined

ConfigIdle ==
    /\ envConfig = GeneratedConfig
    /\ cfgCall = Undefined
    /\ cfgOut = Undefined

CallersIdle ==
    /\ pagesArray = <<>>
    /\ metaHeap = <<>>
    /\ held = <<>>

Init ==
    /\ mode = "request"
    /\ StatusIdle
    /\ LocatorIdle
    /\ ConfigIdle
    /\ CallersIdle
    /\ impl \in Impls
    /\ apiConfig = getConfig(GeneratedConfig).value
    /\ RequestLocalsClear

\* GET of /api/config up to the customFetch of getGlobalConfig's
\* getPreloadData
GET ==
    /\ mode = "request"
    /\ pc = "idle"
    /\ \E pageId \in PageParams :
          LET config == IF Truthy(pageId) THEN getConfigForPage(apiConfig, pageId)
                        ELSE Undefined
              current == CurrentConfig(impl, config, apiConfig)
          IN  /\ reqPageId' = pageId
              /\ currentConfig' = current
              /\ fetches' = <<current.htmlEndpoint>>
    /\ pc' = "config"
    /\ UNCHANGED <<mode, statusVars, locatorVars, configVars, callerVars, impl,
                   apiConfig, preloadData, maintenanceData, maintPreload,
                   maintNow, lastResponse, result>>

\* getGlobalConfig from the answer to its getPreloadData up to the
\* customFetch of getMaintenanceData's getPreloadData, or to its catch
ConfigFetched ==
    /\ mode = "request"
    /\ pc = "config"
    /\ \E resp \in Responses(PageOf(fetches[Len(fetches)])) :
          LET preload == getPreloadData(impl, resp)
              checked == ValidateConfig(preload)
          IN  /\ lastResponse' = resp
              /\ preloadData' = preload
              /\ IF checked.threw
                 THEN /\ result' = GlobalConfigCatch(checked)
                      /\ pc' = "done"
                      /\ fetches' = fetches
                 ELSE /\ result' = result
                      /\ pc' = "maintenance"
                      /\ fetches' = Append(fetches, currentConfig.htmlEndpoint)
    /\ UNCHANGED <<mode, statusVars, locatorVars, configVars, callerVars, impl,
                   apiConfig, reqPageId, currentConfig, maintenanceData,
                   maintPreload, maintNow>>

\* getMaintenanceData from the answer to its getPreloadData, and the rest
\* of getGlobalConfig
MaintenanceFetched ==
    /\ mode = "request"
    /\ pc = "maintenance"
    /\ \E resp \in Responses(PageOf(fetches[Len(fetches)])) :
          LET preload == getPreloadData(impl, resp)
          IN  \E nows \in NowReadings(Len(ListToProcess(preload))) :
                 LET maintenance == getMaintenanceData(preload, nows)
                 IN  /\ lastResponse' = resp
                     /\ maintPreload' = preload
                     /\ maintNow' = nows
                     /\ maintenanceData' = maintenance
                     /\ result' = GlobalConfigCatch(
                            IF maintenance.threw THEN maintenance
                            ELSE Return(AssembleGlobalConfig(preloadData.value,
                                                             maintenance.value)))
    /\ pc' = "done"
    /\ UNCHANGED <<mode, statusVars, locatorVars, configVars, callerVars, impl,
                   apiConfig, reqPageId, currentConfig, preloadData, fetches>>

\* createApiResponse sends the result; the next request starts afresh
Respond ==
    /\ mode = "request"
    /\ pc = "done"
    /\ pc' = "idle"
    /\ reqPageId' = Null
    /\ currentConfig' = Undefined
    /\ preloadData' = Undefined
    /\ maintenanceData' = Undefined
    /\ maintPreload' = Undefined
    /\ maintNow' = <<>>
    /\ lastResponse' = NoResponse
    /\ fetches' = <<>>
    /\ result' = Undefined
    /\ UNCHANGED <<mode, statusVars, locatorVars, configVars, callerVars, impl, apiConfig>>

Next == GET \/ ConfigFetched \/ MaintenanceFetched \/ Respond

Spec == Init /\ [][Next]_vars

(***************************************************************************)
(* Properties of the /api/config request (Spec).                           *)
(***************************************************************************)
Done == mode = "request" /\ pc = "done"

\* getGlobalConfig got preload data whose config it accepts
ConfigUsable ==
    /\ ~IsUndefined(preloadData)
    /\ ~preloadData.threw
    /\ HasField(preloadData.value, "config")
    /\ RequiredFields \subseteq DOMAIN preloadData.value.config
    /\ preloadData.value.config.theme.type = "string"

UpstreamTheme == preloadData.value.config.theme

AllowedThemes == {Str("light"), Str("dark"), Str("system")}

\* C2: every result of getGlobalConfig, normal or degraded, has a theme
\* among light, dark and system: upstream 'dark' gives dark, 'light' gives
\* light, any other string gives system.
C2_ThemeNormalized ==
    Done =>
        /\ ~result.threw
        /\ result.value.config.theme \in AllowedThemes
        /\ ConfigUsable =>
              /\ UpstreamTheme = Str("dark") => result.value.config.theme = Str("dark")
              /\ UpstreamTheme = Str("light") => result.value.config.theme = Str("light")
              /\ UpstreamTheme \notin {Str("dark"), Str("light")}
                    => result.value.config.theme = Str("system")

\* an upstream theme that is a string outside the three is served as system
C2_Witness ==
    /\ Done
    /\ ConfigUsable
    /\ UpstreamTheme = Str("auto")
    /\ result.value.config.theme = Str("system")

\* the result carries the upstream's config, theme aside
UpstreamDerived ==
    /\ DOMAIN result.value.config = DOMAIN preloadData.value.config
    /\ \A f \in (DOMAIN preloadData.value.config) \ {"theme"} :
          result.value.config[f] = preloadData.value.config[f]

\* getMaintenanceData was handed preload data whose maintenanceList is no
\* array
MaintenanceNotArray ==
    /\ ~IsUndefined(maintPreload)
    /\ ~maintPreload.threw
    /\ ~ArrayIsArray(maintPreload.value, "maintenanceList")

\* C3: with a valid upstream config and a maintenanceList that is not an
\* array, getGlobalConfig does not raise and returns the upstream-derived
\* config, not the placeholder, with an empty maintenanceList.
C3_NonArrayMaintenance ==
    (Done /\ ConfigUsable /\ MaintenanceNotArray) =>
        /\ ~result.threw
        /\ UpstreamDerived
        /\ result.value.config.slug # ""
        /\ result.value.maintenanceList = <<>>

\* one payload, valid config and a maintenanceList that is no array, seen
\* by both reads of the request
C3_Witness ==
    /\ Done
    /\ ConfigUsable
    /\ MaintenanceNotArray
    /\ maintPreload = preloadData
    /\ HasField(preloadData.value, "maintenanceList")
    /\ result.value.maintenanceList = <<>>

\* the result holds no value of the upstream's config
NothingFromUpstream ==
    (~preloadData.threw /\ HasField(preloadData.value, "config")) =>
        \A f \in (DOMAIN preloadData.value.config) \cap (DOMAIN result.value.config) :
            result.value.config[f] # preloadData.value.config[f]

\* C4: getGlobalConfig never raises, and whenever preload extraction fails,
\* the config is missing, a required field is absent or theme is no string,
\* it returns the placeholder: empty slug, title and description, icon
\* '/icon.svg', theme 'system', maintenanceList [], no incident, and no
\* field of the upstream payload.
C4_DegradesToPlaceholder ==
    Done =>
        /\ ~result.threw
        /\ ~ConfigUsable =>
              /\ result.value.config.slug = ""
              /\ result.value.config.title = ""
              /\ result.value.config.description = ""
              /\ result.value.config.icon = "/icon.svg"
              /\ result.value.config.theme = Str("system")
              /\ result.value.maintenanceList = <<>>
              /\ DOMAIN result.value = {"config", "maintenanceList"}
              /\ NothingFromUpstream

\* a payload whose theme is no string is answered with the placeholder
C4_Witness ==
    /\ Done
    /\ ~preloadData.threw
    /\ HasField(preloadData.value, "config")
    /\ RequiredFields \subseteq DOMAIN preloadData.value.config
    /\ preloadData.value.config.theme = NotAString
    /\ HasField(preloadData.value, "incident")
    /\ result.value.config.slug = ""
    /\ ~HasField(result.value, "incident")

\* the boolean fields of the placeholder config
PlaceholderBooleans == {"published", "showTags", "showPoweredBy", "showCertificateExpiry"}

\* C5 as stated: the placeholder getGlobalConfig returns on degradation has
\* every boolean flag off.
C5_AsStated ==
    (Done /\ ~ConfigUsable) =>
        \A f \in PlaceholderBooleans : result.value.config[f] = FALSE

\* C5 amended: the placeholder getGlobalConfig returns on degradation has
\* showPoweredBy and showCertificateExpiry off, and published and showTags
\* on.
C5_PlaceholderFlags ==
    (Done /\ ~ConfigUsable) =>
        /\ PlaceholderBooleans \subseteq DOMAIN result.value.config
        /\ result.value.config.showPoweredBy = FALSE
        /\ result.value.config.showCertificateExpiry = FALSE
        /\ result.value.config.published = TRUE
        /\ result.value.config.showTags = TRUE

\* a degraded answer, after the upstream could not be reached
C5_Witness ==
    /\ Done
    /\ preloadData.threw
    /\ lastResponse.net = "throw"
    /\ result.value.config.showPoweredBy = FALSE
    /\ result.value.config.published = TRUE

\* the outcome of the getPreloadData call that lastResponse answered
LastPreload == IF IsUndefined(maintPreload) THEN preloadData ELSE maintPreload

\* the second locator strategy finds an assignment in the page
LegacyYields(html) == RegexCapture(ScriptsWithPreloadData(html)) # <<>>

\* neither locator strategy yields payload text that is not blank
NothingLocated(html) ==
    /\ html.preloadData = <<>> \/ IsBlank(html.preloadData)
    /\ ~LegacyYields(html)

\* C6: getPreloadData returns no default: when the fetch fails, the status
\* is not 2xx, neither locator strategy yields payload text or the payload
\* fails to parse, it raises, and whatever it raises is a ConfigError; what
\* it returns is what the payload parsed to.
C6_PreloadRaisesConfigError ==
    (mode = "request" /\ lastResponse.net # "none") =>
        /\ ( \/ lastResponse.net = "throw"
             \/ ~lastResponse.ok
             \/ NothingLocated(lastResponse.html)
             \/ lastResponse.parse.threw ) => LastPreload.threw
        /\ LastPreload.threw => LastPreload.error.name = "ConfigError"
        /\ ~LastPreload.threw => LastPreload = lastResponse.parse

\* the fetch itself failed and a ConfigError came out
C6_Witness ==
    /\ mode = "request"
    /\ lastResponse.net = "throw"
    /\ LastPreload.threw
    /\ LastPreload.error.name = "ConfigError"

\* C7: getMaintenanceData never raises; it returns success=false and an
\* empty list when preload extraction failed or maintenanceList is no array,
\* and success=true, with the processed upstream list, exactly when
\* extraction succeeded and maintenanceList is an array.
C7_MaintenanceNeverRaises ==
    (Done /\ ~IsUndefined(maintenanceData)) =>
        /\ ~maintenanceData.threw
        /\ maintenanceData.value.success
              <=> (~maintPreload.threw
                   /\ ArrayIsArray(maintPreload.value, "maintenanceList"))
        /\ ~maintenanceData.value.success => maintenanceData.value.maintenanceList = <<>>
        /\ maintenanceData.value.success =>
              /\ Len(maintenanceData.value.maintenanceList)
                    = Len(maintPreload.value.maintenanceList.items)
              /\ maintenanceData.value.maintenanceList
                    = processMaintenanceData(maintPreload.value.maintenanceList.items,
                                             maintNow)

\* preload extraction failed under getMaintenanceData and it answered
\* success=false
C7_Witness ==
    /\ Done
    /\ ~IsUndefined(maintenanceData)
    /\ maintPreload.threw
    /\ ~maintenanceData.threw
    /\ ~maintenanceData.value.success

\* C8: one /api/config request makes at most one upstream HTML fetch.
C8_OneFetchPerRequest == mode = "request" => Len(fetches) <= 1

\* the page a request is to be served from: the one it names, the default
\* page when it names none
RequestedPage == IF reqPageId = Null THEN apiConfig.defaultPageId ELSE reqPageId

\* C9: a request for a configured page p, or for no page (the default page),
\* is answered with data scraped from that page's endpoint,
\* {baseUrl}/status/p, and from no other page's.
C9_PageScoped ==
    (mode = "request" /\ pc # "idle" /\ reqPageId \in PageIds \cup {Null}) =>
        /\ \A i \in 1 .. Len(fetches) :
              fetches[i] = HtmlEndpoint(apiConfig.baseUrl, RequestedPage)
        /\ (pc = "done" /\ ConfigUsable) => result.value.config.slug = RequestedPage

\* the maintenanceList a result has when it is processed from this preload
\* data: its list at some readings of the clock, <<>> when it has no list
ProcessedListsOf(preload) ==
    {getMaintenanceData(preload, nows).value.maintenanceList :
        nows \in NowReadings(Len(ListToProcess(preload)))}

\* C18: in every result of getGlobalConfig that is not the placeholder,
\* maintenanceList is the processed maintenanceList of the upstream
\* response that config and incident were taken from, also when the
\* upstream page changes or fails between the steps of the call.
C18_OneSnapshot ==
    (Done /\ ConfigUsable /\ result.value # Placeholder) =>
        /\ UpstreamDerived
        /\ result.value.maintenanceList \in ProcessedListsOf(preloadData)

(***************************************************************************)
(* SpecLocator: the Script Locator of getPreloadData on bounded pages.     *)
(***************************************************************************)
TextsUpTo(n) == UNION {[1 .. k -> Tokens] : k \in 0 .. n}

\* pages without a designated element and with one inline script: every
\* text of up to MaxLen tokens; and the shapes of the page with and without
\* the element, and with the assignment in the second of two scripts
LocatorInputs ==
    {[preloadData |-> <<>>, scripts |-> <<s>>] : s \in TextsUpTo(MaxLen)}
    \cup HtmlShapes
    \cup {[preloadData |-> el, scripts |-> <<<<"W", "x", ";">>, Assignment>>] :
             el \in {<<>>, <<"nl">>, Literal, <<"{", "}">>, <<"nl", "{", "}">>}}

InitLocator ==
    /\ mode = "locator"
    /\ StatusIdle
    /\ RequestIdle
    /\ ConfigIdle
    /\ CallersIdle
    /\ locIn \in LocatorInputs
    /\ locOut = Undefined

\* getPreloadData from cheerio.load(html) to the payload it hands to the
\* sanitizer, or to its 'not found' error
Locate ==
    /\ mode = "locator"
    /\ IsUndefined(locOut)
    /\ \E service \in Impls :
          LET preloadScript == LocatePreload(service, locIn)
          IN  locOut' = [service |-> service,
                         found |-> ~PreloadMissing(service, preloadScript),
                         text |-> preloadScript]
    /\ UNCHANGED <<mode, statusVars, locIn, requestVars, configVars, callerVars>>

NextLocator == Locate

SpecLocator == InitLocator /\ [][NextLocator]_vars

\* braces opened and not closed in text[j..k]
Depth(text, j, k) ==
    Cardinality({m \in j .. k : text[m] = "{"}) - Cardinality({m \in j .. k : text[m] = "}"})

\* the `}` that balances the `{` at j, 0 when there is none
BalancedClose(text, j) ==
    LET closes == {k \in j + 1 .. Len(text) : Depth(text, j, k) = 0}
    IN  IF closes = {} THEN 0 ELSE SetMin(closes)

\* the markers that an object literal and `;` follow
LiteralStarts(text) ==
    {i \in 1 .. Len(text) :
        /\ text[i] = "W"
        /\ BraceAfter(text, i) # 0
        /\ BalancedClose(text, BraceAfter(text, i)) # 0
        /\ BalancedClose(text, BraceAfter(text, i)) < Len(text)
        /\ text[BalancedClose(text, BraceAfter(text, i)) + 1] = ";"}

\* the object literal of `window.preloadData = <object literal>;`: from its
\* first `{` to the `}` that balances it
AssignedLiteral(text) ==
    LET j == BraceAfter(text, SetMin(LiteralStarts(text)))
    IN  SubSeq(text, j, BalancedClose(text, j))

\* C10: with the #preload-data element absent or empty and a script that
\* holds `window.preloadData = <object literal>;`, the located text is the
\* object literal, from its first `{` to the balanced `}` that `;` follows,
\* whatever braces and `};` the payload or the rest of the script contain.
C10_LegacyBalanced ==
    ( /\ mode = "locator"
      /\ ~IsUndefined(locOut)
      /\ locOut.service = "services/config.server.ts"
      /\ locIn.preloadData = <<>> \/ IsBlank(locIn.preloadData)
      /\ LiteralStarts(ScriptsWithPreloadData(locIn)) # {} )
    => /\ locOut.found
       /\ locOut.text = AssignedLiteral(ScriptsWithPreloadData(locIn))

\* C11: when the #preload-data element has text that is not only white
\* space, that text is the payload handed to the sanitizer, whatever
\* window.preloadData script the page also holds; the located text differs
\* from the element's only when the element is absent, empty or blank.
C11_ElementFirst ==
    (mode = "locator" /\ ~IsUndefined(locOut)) =>
        /\ (locIn.preloadData # <<>> /\ ~IsBlank(locIn.preloadData)) =>
               (locOut.found /\ locOut.text = locIn.preloadData)
        /\ locOut.text # locIn.preloadData =>
               (locIn.preloadData = <<>> \/ IsBlank(locIn.preloadData))

\* a page with text in the element and another object literal assigned in
\* a legacy script, located by the service that has the legacy strategy
C11_Witness ==
    /\ mode = "locator"
    /\ ~IsUndefined(locOut)
    /\ locOut.service = "services/config.server.ts"
    /\ locIn.preloadData # <<>> /\ ~IsBlank(locIn.preloadData)
    /\ RegexCapture(ScriptsWithPreloadData(locIn)) # <<>>
    /\ RegexCapture(ScriptsWithPreloadData(locIn)) # locIn.preloadData
    /\ locOut.text = locIn.preloadData

(***************************************************************************)
(* SpecConfig: the Config Assembler over the generated configurations      *)
(* that configSchema lets through.                                         *)
(***************************************************************************)
\* a default page id that names none of the pages
RemovedPage == "gone"

PageEntry(id) == [id |-> id, siteMeta |-> SiteMetaOf(id)]

\* pages: z.array(pageConfigSchema), in either order, one page, or none
PageLists ==
    {<<>>, <<PageEntry("main")>>, <<PageEntry("main"), PageEntry("ops")>>,
     <<PageEntry("ops"), PageEntry("main")>>}

\* env.config: configSchema does not relate defaultPageId to pages
EnvConfigs ==
    [baseUrl : {BaseUrl},
     defaultPageId : PageIds \cup {RemovedPage, ""},
     pages : PageLists,
     isPlaceholder : {FALSE},
     isEditThisPage : BOOLEAN,
     isShowStarButton : BOOLEAN]

\* the pageId arguments of getConfigForPage
PageArgs == PageIds \cup {UnknownPage, RemovedPage}

\* export const apiConfig = getConfig(): Undefined when the module fails
\* to load
LoadApiConfig(e) == IF getConfig(e).threw THEN Undefined ELSE getConfig(e).value

InitConfig ==
    /\ mode = "config"
    /\ StatusIdle
    /\ LocatorIdle
    /\ CallersIdle
    /\ impl = "services/config.server.ts"
    /\ RequestLocalsClear
    /\ envConfig \in EnvConfigs
    /\ apiConfig = LoadApiConfig(envConfig)
    /\ cfgCall = Undefined
    /\ cfgOut = Undefined

CallGetConfig ==
    /\ mode = "config"
    /\ IsUndefined(cfgCall)
    /\ cfgCall' = [fn |-> "getConfig"]
    /\ cfgOut' = getConfig(envConfig)
    /\ UNCHANGED <<mode, statusVars, locatorVars, requestVars, envConfig, callerVars>>

\* getConfigForPage exists once config/api.ts has loaded
CallGetConfigForPage ==
    /\ mode = "config"
    /\ IsUndefined(cfgCall)
    /\ ~IsUndefined(apiConfig)
    /\ \E pageId \in PageArgs :
          /\ cfgCall' = [fn |-> "getConfigForPage", pageId |-> pageId]
          /\ cfgOut' = Return(getConfigForPage(apiConfig, pageId))
    /\ UNCHANGED <<mode, statusVars, locatorVars, requestVars, envConfig, callerVars>>

NextConfig == CallGetConfig \/ CallGetConfigForPage

SpecConfig == InitConfig /\ [][NextConfig]_vars

\* a call has returned a config
ConfigReturned == mode = "config" /\ ~IsUndefined(cfgCall) /\ ~cfgOut.threw

IsConfiguredPage(pages, id) == \E i \in 1 .. Len(pages) : pages[i].id = id

\* the first of the pages that has this id
ConfiguredPage(pages, id) ==
    pages[SetMin({i \in 1 .. Len(pages) : pages[i].id = id})]

\* C12: getConfigForPage with a page id that matches no configured page
\* does not fail and returns the data of the first configured page:
\* pages[0]'s siteMeta and the endpoints derived from pages[0]'s id.
C12_UnknownPageFirstPage ==
    ( /\ mode = "config"
      /\ ~IsUndefined(cfgCall)
      /\ cfgCall.fn = "getConfigForPage"
      /\ ~IsConfiguredPage(apiConfig.pages, cfgCall.pageId) )
    => /\ ~cfgOut.threw
       /\ cfgOut.value.siteMeta = apiConfig.pages[1].siteMeta
       /\ cfgOut.value.htmlEndpoint =
              HtmlEndpoint(apiConfig.baseUrl, apiConfig.pages[1].id)
       /\ cfgOut.value.apiEndpoint =
              ApiEndpoint(apiConfig.baseUrl, apiConfig.pages[1].id)

\* C13: for every configured page id p, getConfigForPage(p) returns a
\* config with currentPageId = p, htmlEndpoint = {baseUrl}/status/p,
\* apiEndpoint = {baseUrl}/api/status-page/heartbeat/p and p's siteMeta;
\* and in every config that getConfig or getConfigForPage returns, the two
\* endpoints are the interpolation of baseUrl with its currentPageId.
C13_EndpointsFollowPage ==
    /\ ( /\ mode = "config"
         /\ ~IsUndefined(cfgCall)
         /\ cfgCall.fn = "getConfigForPage"
         /\ IsConfiguredPage(apiConfig.pages, cfgCall.pageId) )
       => /\ ~cfgOut.threw
          /\ cfgOut.value.currentPageId = cfgCall.pageId
          /\ cfgOut.value.htmlEndpoint =
                 <<cfgOut.value.baseUrl, "/status/", cfgCall.pageId>>
          /\ cfgOut.value.apiEndpoint =
                 <<cfgOut.value.baseUrl, "/api/status-page/heartbeat/", cfgCall.pageId>>
          /\ cfgOut.value.siteMeta =
                 ConfiguredPage(apiConfig.pages, cfgCall.pageId).siteMeta
    /\ ConfigReturned
       => /\ cfgOut.value.htmlEndpoint =
                 <<cfgOut.value.baseUrl, "/status/", cfgOut.value.currentPageId>>
          /\ cfgOut.value.apiEndpoint =
                 <<cfgOut.value.baseUrl, "/api/status-page/heartbeat/",
                   cfgOut.value.currentPageId>>

\* a configured page other than the default one has been asked for
C13_Witness ==
    /\ ConfigReturned
    /\ cfgCall.fn = "getConfigForPage"
    /\ IsConfiguredPage(apiConfig.pages, cfgCall.pageId)
    /\ cfgCall.pageId # apiConfig.defaultPageId
    /\ cfgOut.value.currentPageId = cfgCall.pageId
    /\ cfgOut.value.apiEndpoint # apiConfig.apiEndpoint

\* C17: in every config that getConfig or getConfigForPage returns,
\* isEditThisPage and isShowStarButton equal the values env.config holds,
\* for true and for false.
C17_FlagsPassThrough ==
    ConfigReturned =>
        /\ cfgOut.value.isEditThisPage = envConfig.isEditThisPage
        /\ cfgOut.value.isShowStarButton = envConfig.isShowStarButton

\* C19: in every config that getConfig or getConfigForPage returns,
\* siteMeta is the siteMeta of the configured page whose id is the
\* config's currentPageId, also when defaultPageId names no configured
\* page.
C19_MetaOfCurrentPage ==
    ConfigReturned =>
        /\ IsConfiguredPage(cfgOut.value.pages, cfgOut.value.currentPageId)
        /\ cfgOut.value.siteMeta =
               ConfiguredPage(cfgOut.value.pages, cfgOut.value.currentPageId).siteMeta

(***************************************************************************)
(* SpecCallers: what the callers of getConfigForPage share.  Objects and   *)
(* arrays are held by reference: `{ ...apiConfig }` copies the properties  *)
(* of apiConfig, and so the references to the pages array and to the       *)
(* siteMeta object, not the array and the object.                          *)
(***************************************************************************)
Callers == {"api/config", "api/monitor"}

\* the reference every config holds in its `pages` property
PagesRef == "env.config.pages"

\* a config as its holder reads it, through the references
Deref(config) ==
    [config EXCEPT
        !.pages = [i \in 1 .. Len(pagesArray) |->
                      [id |-> pagesArray[i].id,
                       siteMeta |-> metaHeap[pagesArray[i].siteMeta]]],
        !.siteMeta = metaHeap[config.siteMeta]]

\* the config with the pages array where its reference stands: what find
\* iterates over
WithPages(config) == [config EXCEPT !.pages = pagesArray]

InitCallers ==
    /\ mode = "callers"
    /\ StatusIdle
    /\ LocatorIdle
    /\ ConfigIdle
    /\ impl = "services/config.server.ts"
    /\ RequestLocalsClear
    /\ metaHeap = [i \in 1 .. Len(Pages) |-> Pages[i].siteMeta]
    /\ pagesArray = [i \in 1 .. Len(Pages) |-> [id |-> Pages[i].id, siteMeta |-> i]]
    /\ apiConfig =
          [getConfig([GeneratedConfig EXCEPT
                         !.pages = [i \in 1 .. Len(Pages) |->
                                       [id |-> Pages[i].id, siteMeta |-> i]]]).value
              EXCEPT !.pages = PagesRef]
    /\ held = [c \in Callers |-> Undefined]

\* const config = getConfigForPage(pageId) in a route handler
CallerGets ==
    /\ mode = "callers"
    /\ \E c \in Callers, pageId \in PageArgs :
          /\ IsUndefined(held[c])
          /\ held' = [held EXCEPT ![c] =
                         [asked |-> pageId,
                          changed |-> FALSE,
                          config |-> [getConfigForPage(WithPages(apiConfig), pageId)
                                         EXCEPT !.pages = PagesRef]]]
    /\ UNCHANGED <<mode, statusVars, locatorVars, requestVars, configVars,
                   pagesArray, metaHeap>>

\* a caller assigns to a property of the config it holds:
\* config.currentPageId = ...
ChangeOwnProperty ==
    /\ mode = "callers"
    /\ \E c \in Callers :
          /\ ~IsUndefined(held[c])
          /\ held' = [held EXCEPT ![c].changed = TRUE,
                                  ![c].config.currentPageId = "changed"]
    /\ UNCHANGED <<mode, statusVars, locatorVars, requestVars, configVars,
                   pagesArray, metaHeap>>

\* a caller assigns through the config it holds: config.siteMeta.title = ...
ChangeSiteMeta ==
    /\ mode = "callers"
    /\ \E c \in Callers :
          /\ ~IsUndefined(held[c])
          /\ held' = [held EXCEPT ![c].changed = TRUE]
          /\ metaHeap' = [metaHeap EXCEPT ![held[c].config.siteMeta].title = "changed"]
    /\ UNCHANGED <<mode, statusVars, locatorVars, requestVars, configVars, pagesArray>>

\* a caller changes the list of the config it holds: config.pages.pop()
ChangePages ==
    /\ mode = "callers"
    /\ Len(pagesArray) > 0
    /\ \E c \in Callers :
          /\ ~IsUndefined(held[c])
          /\ held' = [held EXCEPT ![c].changed = TRUE]
    /\ pagesArray' = SubSeq(pagesArray, 1, Len(pagesArray) - 1)
    /\ UNCHANGED <<mode, statusVars, locatorVars, requestVars, configVars, metaHeap>>

NextCallers == CallerGets \/ ChangeOwnProperty \/ ChangeSiteMeta \/ ChangePages

SpecCallers == InitCallers /\ [][NextCallers]_vars

\* C14: every getConfigForPage call returns a fresh, independent copy:
\* whatever a caller changes on the config it was given, its pages list and
\* its siteMeta included, apiConfig reads as it did at startup and the
\* config of every caller that changed nothing, given before or after,
\* reads as getConfigForPage of the startup configuration.
C14_IndependentCopies ==
    mode = "callers" =>
        /\ Deref(apiConfig) = getConfig(GeneratedConfig).value
        /\ \A c \in Callers :
              (~IsUndefined(held[c]) /\ ~held[c].changed) =>
                  Deref(held[c].config) =
                      getConfigForPage(getConfig(GeneratedConfig).value, held[c].asked)

(***************************************************************************)
(* SpecStatus: processMaintenanceData on every bounded list.               *)
(***************************************************************************)
InitStatus ==
    /\ mode = "status"
    /\ LocatorIdle
    /\ RequestIdle
    /\ ConfigIdle
    /\ CallersIdle
    /\ statusIn \in MaintenanceLists
    /\ statusNow = <<>>
    /\ statusOut = <<>>

ProcessMaintenance ==
    /\ mode = "status"
    /\ statusNow = <<>>
    /\ Len(statusIn) > 0
    /\ \E nows \in NowReadings(Len(statusIn)) :
          /\ statusNow' = nows
          /\ statusOut' = processMaintenanceData(statusIn, nows)
    /\ UNCHANGED <<mode, statusIn, locatorVars, requestVars, configVars, callerVars>>

NextStatus == ProcessMaintenance

SpecStatus == InitStatus /\ [][NextStatus]_vars

\* the items processMaintenanceData has classified: those with a first slot
Classified == {i \in 1 .. Len(statusOut) :
                  HasField(statusIn[i], "timeslotList")
                  /\ Len(statusIn[i].timeslotList) > 0}

StartTime(i) == DateGetTime(ensureUTCTimezone(statusIn[i].timeslotList[1].startDate))
EndTime(i) == DateGetTime(ensureUTCTimezone(statusIn[i].timeslotList[1].endDate))

IsStatus(m, s) == HasField(m, "status") /\ m.status = s

\* C1 as stated: for every item with a first timeslot, now < start gives
\* 'scheduled', start <= now < end gives 'under-maintenance', and now >= end
\* gives 'ended'.
C1_AsStated ==
    \A i \in Classified :
        /\ Lt(statusNow[i], StartTime(i)) => IsStatus(statusOut[i], "scheduled")
        /\ (Ge(statusNow[i], StartTime(i)) /\ Lt(statusNow[i], EndTime(i)))
              => IsStatus(statusOut[i], "under-maintenance")
        /\ Ge(statusNow[i], EndTime(i)) => IsStatus(statusOut[i], "ended")

\* C1 amended: for every item with a first timeslot, now < start gives
\* 'scheduled', start <= now < end gives 'under-maintenance', and now >= end
\* gives 'ended' provided now >= start as well (in an inverted window,
\* end <= now < start, the item is 'scheduled').
C1_StatusRule ==
    \A i \in Classified :
        /\ Lt(statusNow[i], StartTime(i)) => IsStatus(statusOut[i], "scheduled")
        /\ (Ge(statusNow[i], StartTime(i)) /\ Lt(statusNow[i], EndTime(i)))
              => IsStatus(statusOut[i], "under-maintenance")
        /\ (Ge(statusNow[i], EndTime(i)) /\ Ge(statusNow[i], StartTime(i)))
              => IsStatus(statusOut[i], "ended")

\* the three cases of C1 each happen, on dates that carried no zone upstream
C1_Witness ==
    /\ Len(statusOut) = 2
    /\ \A i \in 1 .. 2 : i \in Classified
    /\ statusIn[1].timeslotList[1].startDate.zone = "none"
    /\ IsStatus(statusOut[1], "ended")
    /\ Ge(statusNow[1], StartTime(1))
    /\ IsStatus(statusOut[2], "under-maintenance")

\* the status property of an item, "unset" when it has none
StatusField(m) == IF HasField(m, "status") THEN m.status ELSE "unset"

\* C15: only the first timeslot of an item determines its status: two
\* items that agree on timeslotList[0] get the same status from
\* processMaintenanceData for the same now.
C15_FirstSlotDecides ==
    \A i \in Classified : \A j \in Classified :
        ( /\ statusIn[i].timeslotList[1] = statusIn[j].timeslotList[1]
          /\ statusNow[i] = statusNow[j] )
        => StatusField(statusOut[i]) = StatusField(statusOut[j])

\* C16: an item whose timeslotList is empty or absent leaves
\* processMaintenanceData with status unset, whatever status the upstream
\* item carried.
C16_NoSlotNoStatus ==
    \A i \in 1 .. Len(statusOut) :
        i \notin Classified => ~HasField(statusOut[i], "status")

\* C20: for every item with a non-empty timeslotList, and for every start
\* and end of its first slot (end <= start and dates that do not parse
\* included), the status that leaves processMaintenanceData is one of
\* 'scheduled', 'under-maintenance', 'ended', and it is the one the first
\* slot gives to every item, whatever status came from upstream.
C20_StatusTotal ==
    \A i \in Classified :
        /\ StatusField(statusOut[i]) \in {"scheduled", "under-maintenance", "ended"}
        /\ StatusField(statusOut[i]) =
               StatusField(ProcessItem(Without(statusIn[i], "status"), statusNow[i]))

====
